---- MODULE Spec2Model ----
(***************************************************************************)
(* git-env-branches: the run of executeCheck (Main): repository check and  *)
(* resolution of the environment branches, housekeeping and classification *)
(* of remote and local branches against the environment branches           *)
(* (GitHelper), the table, the follow-up report and the interactive        *)
(* cleanup (ConsoleHelper), and the deletion of the selected branches.     *)
(*                                                                         *)
(* A string is a sequence of tokens; the token "origin/" is the remote     *)
(* prefix Constants.ORIGIN, so startsWith and replace are computed on the  *)
(* text as JavaScript computes them and not assumed to be a prefix strip.  *)
(* A command handed to git settles in a step of its own, answered or       *)
(* rejected; a promise nobody awaits settles whenever git is done.         *)
(***************************************************************************)
EXTENDS Integers, Sequences, FiniteSets, TLC

VARIABLES
    optCleanup,            \* options.cleanup: "undefined", "true" (bare -c) or "ALL"
    optBranches,           \* options.branches: the names after -b, or not an array
    remoteSet,             \* names listed by `git branch -r`
    localSet,              \* names listed by `git branch`
    current,               \* branchLocal().current, <<>> when HEAD is detached
    mergedIn,              \* env name -> names listed by `git branch -r --merged origin/<env>`
    repoCheck,             \* how git.checkIsRepo() settled, "pending" before
    validRepository,       \* what isValidRepository returned, "unset" before
    lookups,               \* how the git.listRemote() calls settled, in order
    console,               \* messages of executeCheck and getRemoteEnvironmentBranches
    environmentBranches,   \* the resolved environment branches, in option order
    housekeeping,          \* state of the clean and of the fetch of performHousekeeping
    queries,               \* queries issued by getBranchSummaryResult, in order
    pc,                    \* position of the run
    summary,               \* result of getBranchSummaryResult
    table,                 \* heading and rows handed to AsciiTable3 by plotTable
    followUp,              \* what plotFollowUp computed and printed
    branchesToClean,       \* the argument doCleanup was invoked with
    choices,               \* choices of the multiselect question: title and value
    response,              \* answers given to prompts(questions) so far
    asked,                 \* names of the questions shown, in order
    deleteCalls,           \* arguments of the deleteBranches invocations, in order
    remoteTodo,            \* deleteRemoteBranches: push-deletes still to issue
    localStage,            \* deleteLocalBranches: position of the un-awaited local chain
    gitLog,                \* deletion commands issued to git, in order
    pushOutcomes,          \* how the push-deletes settled, in order
    batches,               \* state of the two git.deleteLocalBranches batches
    errorsLogged,          \* what handleGitError printed, in order
    unhandled              \* rejections of promises nobody awaits or catches

\* the command line and the repository
inputVars == <<optCleanup, optBranches, remoteSet, localSet, current, mergedIn>>

\* written by executeCheck before the classification
entryVars == <<repoCheck, validRepository, lookups, console>>

\* outcomes of the deletion commands
outcomeVars == <<pushOutcomes, batches, unhandled>>

vars == <<optCleanup, optBranches, remoteSet, localSet, current, mergedIn, repoCheck,
          validRepository, lookups, console, environmentBranches, housekeeping, queries,
          pc, summary, table, followUp, branchesToClean, choices, response, asked,
          deleteCalls, remoteTodo, localStage, gitLog, pushOutcomes, batches,
          errorsLogged, unhandled>>

(***************************************************************************)
(* Bounds and name universes                                               *)
(***************************************************************************)
MaxEnv == 2

ORIGIN == <<"origin/">>

EnvUniverse == { <<"DEV">>, <<"master">> }

\* branch names of the classification runs: origin's branches, and a branch
\* "origin/a" of a second remote "up"
RemoteUniverse ==
    { <<"origin/", "DEV">>, <<"origin/", "master">>, <<"origin/", "a">>,
      <<"up/", "origin/", "a">> }

LocalUniverse == { <<"a">>, <<"origin/", "a">>, <<"up/", "a">> }

\* branch names of the full runs
RunRemoteUniverse == { <<"origin/", "DEV">>, <<"origin/", "a">> }

RunLocalUniverse == { <<"a">>, <<"origin/", "a">> }

\* the heads `git ls-remote --heads origin` can list
OriginHeads == { <<"DEV">>, <<"master">> }

\* options.branches of the full runs: -b without a name leaves the value true (not an
\* array); "nonexistent" is no head of origin, "*" is a pattern and no branch name
OptionBranches ==
    { [isArray |-> FALSE, names |-> <<>>],
      [isArray |-> TRUE, names |-> << <<"DEV">>, <<"master">> >>],
      [isArray |-> TRUE, names |-> << <<"DEV">>, <<"DEV">> >>],
      [isArray |-> TRUE, names |-> << <<"nonexistent">>, <<"DEV">> >>],
      [isArray |-> TRUE, names |-> << <<"*">> >>] }

\* `git branch -r --sort=-committerdate`: most recent commit first (commit dates fixed)
RemoteOrder ==
    << <<"origin/", "a">>, <<"up/", "origin/", "a">>,
       <<"origin/", "DEV">>, <<"origin/", "master">> >>

\* `git branch`: sorted by name
LocalOrder == << <<"a">>, <<"origin/", "a">>, <<"up/", "a">> >>

CleanupValues == {"undefined", "true", "ALL"}

(***************************************************************************)
(* JavaScript string, array and object primitives                          *)
(***************************************************************************)
Range(s) == { s[i] : i \in 1..Len(s) }

startsWith(s, p) == Len(s) >= Len(p) /\ SubSeq(s, 1, Len(p)) = p

\* index of the first occurrence of p in s, 0 when there is none
indexOf(s, p) ==
    LET hits == { i \in 1..(Len(s) - Len(p) + 1) : SubSeq(s, i, i + Len(p) - 1) = p }
    IN  IF hits = {} THEN 0 ELSE CHOOSE i \in hits : \A j \in hits : i <= j

\* String.prototype.replace(p, ""): removes the first occurrence of p, wherever it is
replaceFirst(s, p) ==
    LET i == indexOf(s, p)
    IN  IF i = 0 THEN s ELSE SubSeq(s, 1, i - 1) \o SubSeq(s, i + Len(p), Len(s))

includes(arr, x) == \E i \in 1..Len(arr) : arr[i] = x

filter(arr, Test(_)) == SelectSeq(arr, Test)

some(arr, P(_)) == \E i \in 1..Len(arr) : P(arr[i])

\* Array.prototype.find where some element passes the test: the first such element
find(arr, P(_)) ==
    LET hits == { i \in 1..Len(arr) : P(arr[i]) }
    IN  arr[CHOOSE i \in hits : \A j \in hits : i <= j]

map(arr, F(_)) == [i \in 1..Len(arr) |-> F(arr[i])]

\* an object is the sequence of its [key, value] entries in insertion order
ObjKeys(obj) == [i \in 1..Len(obj) |-> obj[i].key]

ObjValues(obj) == [i \in 1..Len(obj) |-> obj[i].value]

ObjGet(obj, k) == obj[CHOOSE i \in 1..Len(obj) : obj[i].key = k].value

ObjSet(obj, k, v) ==
    IF \E i \in 1..Len(obj) : obj[i].key = k
    THEN [i \in 1..Len(obj) |-> IF obj[i].key = k THEN [key |-> k, value |-> v] ELSE obj[i]]
    ELSE Append(obj, [key |-> k, value |-> v])

every(arr, Test(_)) == \A i \in 1..Len(arr) : Test(arr[i])

(***************************************************************************)
(* GitHelper: queries                                                      *)
(***************************************************************************)
\* the names of a set of branches in the order git lists them
Listed(order, S) == SelectSeq(order, LAMBDA b : b \in S)

\* git.branch({"-r", "--sort": "-committerdate"}): BranchSummary of the remote branches
getAllRemoteBranches ==
    [all |-> Listed(RemoteOrder, remoteSet), branches |-> Listed(RemoteOrder, remoteSet)]

\* git.branchLocal()
branchLocal == [all |-> Listed(LocalOrder, localSet), current |-> current]

getMergedRemoteBranches(remoteBranch) ==
    Listed(RemoteOrder, remoteSet \cap mergedIn[remoteBranch])

getUnMergedRemoteBranches(remoteBranch) ==
    Listed(RemoteOrder, remoteSet \ mergedIn[remoteBranch])

getTargetBranchData(branchName) ==
    [merged |-> getMergedRemoteBranches(branchName),
     unmerged |-> getUnMergedRemoteBranches(branchName)]

getLastCommitInfo(branch) == [commitDate |-> "2024-01-01", committer |-> "dev"]

getFilesTouchedInBranch(branch) == <<>>

(***************************************************************************)
(* GitHelper: repository check and environment branches                    *)
(***************************************************************************)
\* how a command can settle: with its answer, or rejected with a GitError
CheckIsRepoOutcomes == {"true", "false", "rejected"}

\* a rejection answered true
isValidRepositoryTrusting(outcome) == IF outcome = "false" THEN "false" ELSE "true"

\* await this.git.checkIsRepo().catch(this.handleGitError) || false
isValidRepository(outcome) ==
    LET caught == IF outcome = "rejected" THEN "undefined" ELSE outcome
    IN  IF caught = "true" THEN "true" ELSE "false"

\* matching of a git pattern against a text: "*" stands for any run of the text
RECURSIVE wildmatch(_, _)
wildmatch(pattern, text) ==
    IF pattern = <<>> THEN text = <<>>
    ELSE IF Head(pattern) = "*"
         THEN \E k \in 0..Len(text) : wildmatch(Tail(pattern), SubSeq(text, k + 1, Len(text)))
         ELSE text # <<>> /\ Head(text) = Head(pattern) /\ wildmatch(Tail(pattern), Tail(text))

\* the heads of origin in the order ls-remote prints them
HeadOrder == << <<"DEV">>, <<"master">> >>

\* git.listRemote(["--heads", "origin", `refs/heads/${name}`]): the refs of origin whose
\* trailing path components match the pattern
listRemote(name) ==
    Listed(HeadOrder,
           { h \in OriginHeads :
               wildmatch(<<"*", "refs/heads/">> \o name, <<"refs/heads/">> \o h) })

\* how git.listRemote can settle for a name
ListRemoteOutcomes(name) ==
    { [rejected |-> FALSE, refs |-> listRemote(name)], [rejected |-> TRUE, refs |-> <<>>] }

\* every looked-up name taken as valid
isValidBranchAlways(outcome) == TRUE

\* await this.git.listRemote(...).catch(() => {}) || false, and the test !isValidBranch
isValidBranch(outcome) == IF outcome.rejected THEN FALSE ELSE Len(outcome.refs) > 0

(***************************************************************************)
(* GitHelper: classification                                               *)
(***************************************************************************)
\* targets: BranchData, one entry per environment branch name
RECURSIVE TargetsOf(_)
TargetsOf(envs) ==
    IF envs = <<>> THEN <<>>
    ELSE ObjSet(TargetsOf(SubSeq(envs, 1, Len(envs) - 1)), envs[Len(envs)],
                getTargetBranchData(envs[Len(envs)]))

\* environmentBranches.forEach(name => target[name] = targets[name].merged.includes(branch))
RECURSIVE RemoteTarget(_, _, _)
RemoteTarget(envs, targets, branch) ==
    IF envs = <<>> THEN <<>>
    ELSE ObjSet(RemoteTarget(SubSeq(envs, 1, Len(envs) - 1), targets, branch),
                envs[Len(envs)],
                includes(ObjGet(targets, envs[Len(envs)]).merged, branch))

\* environmentBranches.forEach(name => target[name] = false)
RECURSIVE LocalTarget(_)
LocalTarget(envs) ==
    IF envs = <<>> THEN <<>>
    ELSE ObjSet(LocalTarget(SubSeq(envs, 1, Len(envs) - 1)), envs[Len(envs)], FALSE)

isFullyMergedOf(target) == every(ObjValues(target), LAMBDA item : item)

\* the negation dropped from the test of isNeverMerged
isNeverMergedUnnegated(target) == every(ObjValues(target), LAMBDA item : item)

isNeverMergedOf(target) == every(ObjValues(target), LAMBDA item : ~item)

\* the remote prefix left out of the comparison
isEnvironmentBranchNoPrefix(envs, branch) == includes(envs, branch)

isEnvironmentBranchOf(envs, branch) ==
    includes(map(envs, LAMBDA item : ORIGIN \o item), branch)

\* the record pushed for one remote branch
RemoteRecord(envs, targets, currentBranch, branch) ==
    LET commit == getLastCommitInfo(branch)
        target == RemoteTarget(envs, targets, branch)
    IN  [branch |-> branch,
         committedAt |-> commit.commitDate,
         committedBy |-> commit.committer,
         target |-> target,
         filesTouched |-> getFilesTouchedInBranch(branch),
         isCurrent |-> (currentBranch = branch),
         isFullyMerged |-> isFullyMergedOf(target),
         isNeverMerged |-> isNeverMergedOf(target),
         isEnvironmentBranch |-> isEnvironmentBranchOf(envs, branch),
         isLocalOnly |-> FALSE,
         hasPossibleConflictingFiles |-> FALSE]

getBranchSummaryRemoteBranches(envs, remoteBranches) ==
    LET cur == branchLocal.current
        currentBranch == IF cur # <<>> THEN ORIGIN \o cur ELSE cur
        targets == TargetsOf(envs)
    IN  map(remoteBranches.branches,
            LAMBDA branch : RemoteRecord(envs, targets, currentBranch, branch))

\* the record pushed for one orphan local branch
LocalRecord(envs, localBranches, branch) ==
    [branch |-> branch,
     committedAt |-> "",
     committedBy |-> "",
     target |-> LocalTarget(envs),
     filesTouched |-> getFilesTouchedInBranch(branch),
     isCurrent |-> (localBranches.current = branch),
     isFullyMerged |-> FALSE,
     isNeverMerged |-> FALSE,
     isEnvironmentBranch |-> FALSE,
     isLocalOnly |-> TRUE,
     hasPossibleConflictingFiles |-> FALSE]

remoteAsLocalBranchesSet(remoteBranches) ==
    { replaceFirst(remoteBranches.all[i], ORIGIN) : i \in 1..Len(remoteBranches.all) }

orphanLocalBranchesOf(localBranches, remoteBranches) ==
    filter(localBranches.all,
           LAMBDA localBranch : localBranch \notin remoteAsLocalBranchesSet(remoteBranches))

getBranchSummaryLocalBranches(envs, remoteBranches) ==
    LET localBranches == branchLocal
    IN  map(orphanLocalBranchesOf(localBranches, remoteBranches),
            LAMBDA branch : LocalRecord(envs, localBranches, branch))

getBranchSummaryResult(envs) ==
    LET remoteBranches == getAllRemoteBranches
    IN  getBranchSummaryRemoteBranches(envs, remoteBranches)
            \o getBranchSummaryLocalBranches(envs, remoteBranches)

\* a query handed to git
Query(q, arg) == [q |-> q, arg |-> arg]

RECURSIVE Concat(_)
Concat(seqs) == IF seqs = <<>> THEN <<>> ELSE Head(seqs) \o Concat(Tail(seqs))

\* getTargetBranchData for every environment branch name: a merged and an unmerged query
targetQueries(envs) ==
    Concat([i \in 1..Len(envs) |-> << Query("merged", envs[i]), Query("unmerged", envs[i]) >>])

\* the queries getBranchSummaryResult awaits, in the order it issues them
queriesOf(envs) ==
    LET remoteBranches == getAllRemoteBranches
        orphans == orphanLocalBranchesOf(branchLocal, remoteBranches)
    IN  << Query("branch -r", <<>>) >>
            \o << Query("branchLocal", <<>>) >>
            \o targetQueries(envs)
            \o Concat([i \in 1..Len(remoteBranches.branches) |->
                          << Query("show", remoteBranches.branches[i]),
                             Query("diffSummary", remoteBranches.branches[i]) >>])
            \o << Query("branchLocal", <<>>) >>
            \o targetQueries(envs)
            \o [i \in 1..Len(orphans) |-> Query("diffSummary", orphans[i])]

\* a merged or unmerged query of origin/<name> is answered only for a name of a branch
Answerable(query) == query.q \in {"merged", "unmerged"} => query.arg \in DOMAIN mergedIn

(***************************************************************************)
(* ConsoleHelper: follow-up                                                *)
(***************************************************************************)
fullyMergedBranchesOf(data) ==
    filter(data, LAMBDA branch : branch.isFullyMerged /\ ~branch.isEnvironmentBranch)

neverMergedBranchesOf(data) == filter(data, LAMBDA branch : branch.isNeverMerged)

\* the mergeable-pending filter without its test of isNeverMerged
canBeMergedBranchesNotFully(data) ==
    filter(data, LAMBDA branch : ~branch.isFullyMerged
                                 /\ ~branch.isEnvironmentBranch /\ ~branch.isLocalOnly)

canBeMergedBranchesOf(data) ==
    filter(data, LAMBDA branch : ~branch.isFullyMerged /\ ~branch.isNeverMerged
                                 /\ ~branch.isEnvironmentBranch /\ ~branch.isLocalOnly)

orphanLocalBranchesIn(data) == filter(data, LAMBDA branch : branch.isLocalOnly)

\* the test of options.cleanup always taken
isTruthyAlways(cleanup) == TRUE

isTruthy(cleanup) == cleanup # "undefined"

\* the "ALL" mode ignored: always the bare list
eligibleForDeletionBareOnly(data, cleanup) ==
    fullyMergedBranchesOf(data) \o orphanLocalBranchesIn(data)

eligibleForDeletionOf(data, cleanup) ==
    IF cleanup = "ALL"
    THEN canBeMergedBranchesOf(data) \o fullyMergedBranchesOf(data)
             \o neverMergedBranchesOf(data) \o orphanLocalBranchesIn(data)
    ELSE fullyMergedBranchesOf(data) \o orphanLocalBranchesIn(data)

Line(msg, n, branch) == [msg |-> msg, n |-> n, branch |-> branch]

\* one category of plotFollowUp: the count line, and the checked-out branch found in it
CategoryLines(msg, cat) == IF Len(cat) > 0 THEN << Line(msg, Len(cat), <<>>) >> ELSE <<>>

\* warnCurrentBranch after one category; <<>> stands for undefined (a falsy value)
CheckedOutIn(cat, prev) ==
    IF Len(cat) > 0 /\ some(cat, LAMBDA branch : branch.isCurrent)
    THEN find(cat, LAMBDA branch : branch.isCurrent).branch
    ELSE prev

warnCurrentBranchOf(data) ==
    CheckedOutIn(neverMergedBranchesOf(data),
      CheckedOutIn(orphanLocalBranchesIn(data),
        CheckedOutIn(fullyMergedBranchesOf(data),
          CheckedOutIn(canBeMergedBranchesOf(data), <<>>))))

\* the checked-out branch left in the list handed to doCleanup
notCurrentKept(branches) == branches

notCurrent(branches) == filter(branches, LAMBDA branch : ~branch.isCurrent)

\* plotFollowUp: the lines printed, whether doCleanup is invoked and its argument
plotFollowUp(data, cleanup) ==
    LET canBeMerged == canBeMergedBranchesOf(data)
        neverMerged == neverMergedBranchesOf(data)
        warnCurrentBranch == warnCurrentBranchOf(data)
        eligibleForDeletion == eligibleForDeletionOf(data, cleanup)
        counts == CategoryLines("canBeMerged", canBeMerged)
                      \o CategoryLines("fullyMerged", fullyMergedBranchesOf(data))
                      \o CategoryLines("orphanLocal", orphanLocalBranchesIn(data))
                      \o CategoryLines("neverMerged", neverMerged)
        warn(msg) == IF warnCurrentBranch # <<>>
                     THEN << Line(msg, 0, warnCurrentBranch) >> ELSE <<>>
    IN  IF Len(eligibleForDeletion) > 0
        THEN IF isTruthy(cleanup)
             THEN [printed |-> counts \o warn("checkedOut"),
                   doCleanup |-> Len(notCurrent(eligibleForDeletion)) > 0,
                   branchesToClean |-> notCurrent(eligibleForDeletion)]
             ELSE [printed |-> counts \o << Line("rerunHint", 0, <<>>) >>
                                  \o warn("hintCheckedOut"),
                   doCleanup |-> FALSE, branchesToClean |-> <<>>]
        ELSE IF Len(canBeMerged) = 0 /\ Len(neverMerged) = 0
             THEN [printed |-> counts \o << Line("noHousekeeping", 0, <<>>) >>,
                   doCleanup |-> FALSE, branchesToClean |-> <<>>]
             ELSE [printed |-> counts, doCleanup |-> FALSE, branchesToClean |-> <<>>]

\* the fully merged colour tested before the environment colour
getColorizedValueMergedFirst(value, data) ==
    [text |-> value,
     color |-> IF data.isFullyMerged THEN "green"
               ELSE IF data.isEnvironmentBranch THEN "grey"
               ELSE IF data.isNeverMerged THEN "yellow"
               ELSE IF data.isLocalOnly THEN "magentaBright"
               ELSE "whiteBright.bold"]

\* the colour chalk gives a value of the row or choice of a record
getColorizedValue(value, data) ==
    [text |-> value,
     color |-> IF data.isEnvironmentBranch THEN "grey"
               ELSE IF data.isFullyMerged THEN "green"
               ELSE IF data.isNeverMerged THEN "yellow"
               ELSE IF data.isLocalOnly THEN "magentaBright"
               ELSE "whiteBright.bold"]

Digits == <<"0", "1", "2", "3", "4", "5", "6", "7", "8", "9">>

\* Number.prototype.toString of a length
RECURSIVE toString(_)
toString(n) ==
    IF n < 10 THEN << Digits[n + 1] >> ELSE toString(n \div 10) \o << Digits[(n % 10) + 1] >>

\* the cells of the row of one record, each colorized
getTableRow(featureBranchData) ==
    LET featureBranch ==
            (IF featureBranchData.isCurrent THEN <<"* ">> ELSE <<>>) \o featureBranchData.branch
        environmentBranchesMergeInfo ==
            map(ObjValues(featureBranchData.target),
                LAMBDA isMerged : IF isMerged THEN <<"X">> ELSE <<>>)
    IN  map(<< featureBranch,
               toString(Len(featureBranchData.filesTouched)),
               << featureBranchData.committedAt >>,
               << featureBranchData.committedBy >> >> \o environmentBranchesMergeInfo,
            LAMBDA value : getColorizedValue(value, featureBranchData))

\* plotTable: the heading and the rows of the table printed
plotTable(envs, rowArrays) ==
    [heading |-> << <<"Feature branch">>, <<"# files">>, <<"Last commit">>, <<"By">> >> \o envs,
     rows |-> rowArrays]

NoTable == [heading |-> <<>>, rows |-> <<>>]

\* doCleanup: the choices of the multiselect question
choicesOf(toClean) ==
    map(toClean, LAMBDA branch : [title |-> getColorizedValue(branch.branch, branch),
                                  value |-> branch.branch])

\* doCleanup, question 2: type: prev => prev ? 'multiselect' : null
featureBranchesType(prev) == IF prev THEN "multiselect" ELSE "null"

\* question 3 asked whatever the selection
confirmDeleteTypeAlways(prev) == "confirm"

\* doCleanup, question 3: type: prev => prev?.length ? "confirm" : null
confirmDeleteType(prev) == IF Len(prev) > 0 THEN "confirm" ELSE "null"

(***************************************************************************)
(* GitHelper: deletion                                                     *)
(***************************************************************************)
\* the prefix left on the names pushed
getRemoteBranchesUnstripped(branches) ==
    filter(branches, LAMBDA branch : startsWith(branch, ORIGIN))

getRemoteBranchesSimplified(branches) ==
    map(filter(branches, LAMBDA branch : startsWith(branch, ORIGIN)),
        LAMBDA branch : replaceFirst(branch, ORIGIN))

\* deleteMatchingLocalBranches: the batch handed to git.deleteLocalBranches
matchingLocalBranchesOf(selectedBranches, localBranches) ==
    filter(getRemoteBranchesSimplified(selectedBranches),
           LAMBDA item : includes(localBranches, item))

\* deleteOrphanLocalBranches: the batch handed to git.deleteLocalBranches
orphanBatchOf(selectedBranches) ==
    filter(selectedBranches, LAMBDA branch : ~startsWith(branch, ORIGIN))

Cmd(op, names) == [op |-> op, names |-> names]

(***************************************************************************)
(* The run                                                                 *)
(***************************************************************************)
NoResponse ==
    [askDeleteMergedBranches |-> "unset", featureBranches |-> <<>>, confirmDelete |-> "unset"]

\* lists of at most n environment branch names
EnvLists(n) == UNION { [1..k -> EnvUniverse] : k \in 0..n }

Say(msg, name) == [msg |-> msg, name |-> name]

NotRequested == [clean |-> "idle", fetch |-> "idle"]

\* a repository: its remote-tracking and local branches, the branch checked out, and
\* the merged sets of the environment branches that can be asked for
InitRepository(remoteU, localU, names) ==
    /\ remoteSet \in SUBSET remoteU
    /\ localSet \in SUBSET localU
    /\ current \in localSet \cup {<<>>}
    /\ mergedIn \in { m \in [EnvUniverse -> SUBSET remoteSet] :
                        \A e \in EnvUniverse \ names : m[e] = {} }

\* nothing classified, printed, asked or deleted yet
InitIdle ==
    /\ queries = <<>>
    /\ summary = <<>>
    /\ table = NoTable
    /\ followUp = <<>>
    /\ branchesToClean = <<>>
    /\ choices = <<>>
    /\ response = NoResponse
    /\ asked = <<>>
    /\ deleteCalls = <<>>
    /\ remoteTodo = <<>>
    /\ localStage = "idle"
    /\ gitLog = <<>>
    /\ pushOutcomes = <<>>
    /\ batches = [matching |-> "none", orphan |-> "none"]
    /\ errorsLogged = <<>>
    /\ unhandled = <<>>

\* the state in which getBranchSummaryResult(environmentBranches) starts to wait for
\* its first query, for an environment list of envLists
InitWith(envLists, remoteU, localU) ==
    /\ optCleanup \in CleanupValues
    /\ environmentBranches \in envLists
    /\ optBranches = [isArray |-> TRUE, names |-> environmentBranches]
    /\ InitRepository(remoteU, localU, Range(environmentBranches))
    /\ repoCheck = "true"
    /\ validRepository = "true"
    /\ lookups = [i \in 1..Len(environmentBranches) |->
                     [rejected |-> FALSE, refs |-> << environmentBranches[i] >>]]
    /\ console = <<>>
    /\ housekeeping = [clean |-> "requested", fetch |-> "requested"]
    /\ pc = "classify"
    /\ InitIdle

\* performHousekeeping: clean and fetch are requested and not awaited
performHousekeeping == housekeeping' = [clean |-> "requested", fetch |-> "requested"]

\* the test of the list taken whatever its length
hasLengthAlways(branches) == TRUE

\* if (environmentBranches.length): the list is not empty
hasLength(branches) == Len(branches) > 0

\* executeCheck from its start to its first await after isValidRepository has answered:
\* getBranchesFromOptions, and the first listRemote if there is a list of names
IsValidRepository ==
    /\ pc = "start"
    /\ \E outcome \in CheckIsRepoOutcomes :
         /\ repoCheck' = outcome
         /\ validRepository' = isValidRepository(outcome)
         /\ errorsLogged' = IF outcome = "rejected"
                            THEN Append(errorsLogged, Cmd("checkIsRepo", <<>>))
                            ELSE errorsLogged
         /\ IF isValidRepository(outcome) = "true"
            THEN IF optBranches.isArray
                 THEN pc' = "resolve" /\ console' = console
                 ELSE pc' = "halted"
                      /\ console' = Append(console, Say("noBranchesSpecified", <<>>))
            ELSE pc' = "halted" /\ console' = Append(console, Say("notARepository", <<>>))
    /\ UNCHANGED <<inputVars, lookups, environmentBranches, housekeeping, queries, summary,
                   table, followUp, branchesToClean, choices, response, asked, deleteCalls,
                   remoteTodo, localStage, gitLog, outcomeVars>>

\* getRemoteEnvironmentBranches: the listRemote of the next name has settled; after the
\* last name executeCheck goes on to getBranchSummaryResult, which requests the
\* housekeeping and waits for the remote branches, or reports that no name is left
ListRemoteSettled ==
    /\ pc = "resolve"
    /\ LET name == optBranches.names[Len(lookups) + 1]
           last == Len(lookups) + 1 = Len(optBranches.names)
       IN  \E outcome \in ListRemoteOutcomes(name) :
             LET resolved == IF isValidBranch(outcome)
                             THEN Append(environmentBranches, name)
                             ELSE environmentBranches
                 warned == IF isValidBranch(outcome)
                           THEN console
                           ELSE Append(console, Say("notAValidRemoteBranch", name))
             IN  /\ lookups' = Append(lookups, outcome)
                 /\ environmentBranches' = resolved
                 /\ IF ~last
                    THEN pc' = "resolve" /\ console' = warned /\ UNCHANGED housekeeping
                    ELSE IF hasLength(resolved)
                    THEN pc' = "classify" /\ console' = warned /\ performHousekeeping
                    ELSE /\ pc' = "halted"
                         /\ console' = Append(warned, Say("noValidEnvironmentBranches", <<>>))
                         /\ UNCHANGED housekeeping
    /\ UNCHANGED <<inputVars, repoCheck, validRepository, queries, summary, table, followUp,
                   branchesToClean, choices, response, asked, deleteCalls, remoteTodo,
                   localStage, gitLog, outcomeVars, errorsLogged>>

\* the clean requested by performHousekeeping has completed
CleanSettled ==
    /\ housekeeping.clean = "requested"
    /\ housekeeping' = [housekeeping EXCEPT !.clean = "done"]
    /\ UNCHANGED <<inputVars, entryVars, environmentBranches, queries, pc, summary, table,
                   followUp, branchesToClean, choices, response, asked, deleteCalls,
                   remoteTodo, localStage, gitLog, outcomeVars, errorsLogged>>

\* the fetch requested by performHousekeeping has completed
FetchSettled ==
    /\ housekeeping.fetch = "requested"
    /\ housekeeping' = [housekeeping EXCEPT !.fetch = "done"]
    /\ UNCHANGED <<inputVars, entryVars, environmentBranches, queries, pc, summary, table,
                   followUp, branchesToClean, choices, response, asked, deleteCalls,
                   remoteTodo, localStage, gitLog, outcomeVars, errorsLogged>>

\* executeCheck: const branchSummaryResult = await getBranchSummaryResult(environmentBranches),
\* every query answered
GetBranchSummaryResult ==
    /\ pc = "classify"
    /\ \A query \in Range(queriesOf(environmentBranches)) : Answerable(query)
    /\ queries' = queriesOf(environmentBranches)
    /\ summary' = getBranchSummaryResult(environmentBranches)
    /\ pc' = "plot"
    /\ UNCHANGED <<inputVars, entryVars, environmentBranches, housekeeping, table, followUp,
                   branchesToClean, choices, response, asked, deleteCalls, remoteTodo,
                   localStage, gitLog, outcomeVars, errorsLogged>>

\* the rejection lost, executeCheck left waiting for a result that never comes
afterRejectionWaiting == "waiting"

\* the rejection taken for an empty result, the run going on to the report
afterRejectionReport == "plot"

\* where executeCheck is after its await of getBranchSummaryResult was rejected: it has
\* no try around the await, so it is left
afterRejection == "aborted"

\* a query of getBranchSummaryResult is rejected: nothing catches it, the promise of
\* getBranchSummaryResult and with it the promise of executeCheck is rejected
QueryFailed ==
    /\ pc = "classify"
    /\ LET all == queriesOf(environmentBranches)
       IN  \E k \in 1..Len(all) :
             /\ \A j \in 1..(k - 1) : Answerable(all[j])
             /\ queries' = SubSeq(all, 1, k)
    /\ pc' = afterRejection
    /\ unhandled' = Append(unhandled, "executeCheck")
    /\ UNCHANGED <<inputVars, entryVars, environmentBranches, housekeeping, summary, table,
                   followUp, branchesToClean, choices, response, asked, deleteCalls,
                   remoteTodo, localStage, gitLog, pushOutcomes, batches, errorsLogged>>

\* plotSummaryToConsole up to its return: the table, plotFollowUp and, when it calls
\* doCleanup, the first question of prompts(questions)
PlotSummaryToConsole ==
    /\ pc = "plot"
    /\ table' = plotTable(environmentBranches, map(summary, getTableRow))
    /\ LET f == plotFollowUp(summary, optCleanup)
       IN  /\ followUp' = f.printed
           /\ IF f.doCleanup
              THEN /\ branchesToClean' = f.branchesToClean
                   /\ choices' = choicesOf(f.branchesToClean)
                   /\ asked' = <<"askDeleteMergedBranches">>
                   /\ pc' = "askDelete"
              ELSE /\ pc' = "done"
                   /\ UNCHANGED <<branchesToClean, choices, asked>>
    /\ UNCHANGED <<inputVars, entryVars, environmentBranches, housekeeping, queries, summary,
                   response, deleteCalls, remoteTodo, localStage, gitLog, outcomeVars,
                   errorsLogged>>

\* question 1 answered; prompts skips a question whose type is null, and prev stays the
\* last answer given: after a no, question 3 sees prev = false, which has no length
AnswerAskDelete ==
    /\ pc = "askDelete"
    /\ \E yes \in BOOLEAN :
         /\ response' = [response EXCEPT !.askDeleteMergedBranches = IF yes THEN "yes" ELSE "no"]
         /\ IF featureBranchesType(yes) = "multiselect"
            THEN asked' = Append(asked, "featureBranches") /\ pc' = "select"
            ELSE asked' = asked /\ pc' = "done"
    /\ UNCHANGED <<inputVars, entryVars, environmentBranches, housekeeping, queries, summary,
                   table, followUp, branchesToClean, choices, deleteCalls, remoteTodo,
                   localStage, gitLog, outcomeVars, errorsLogged>>

\* question 2 answered with the values of the ticked choices, in the order of the choices
AnswerSelect ==
    /\ pc = "select"
    /\ \E ticked \in SUBSET (1..Len(choices)) :
         LET picked == SelectSeq([i \in 1..Len(choices) |-> i], LAMBDA i : i \in ticked)
             values == [k \in 1..Len(picked) |-> choices[picked[k]].value]
         IN  /\ response' = [response EXCEPT !.featureBranches = values]
             /\ IF confirmDeleteType(values) = "confirm"
                THEN asked' = Append(asked, "confirmDelete") /\ pc' = "confirm"
                ELSE asked' = asked /\ pc' = "done"
    /\ UNCHANGED <<inputVars, entryVars, environmentBranches, housekeeping, queries, summary,
                   table, followUp, branchesToClean, choices, deleteCalls, remoteTodo,
                   localStage, gitLog, outcomeVars, errorsLogged>>

\* deleteBranches up to its return: deleteRemoteBranches runs to its first awaited push,
\* deleteLocalBranches to its awaited branchLocal; neither is awaited
deleteBranches(selectedBranches) ==
    LET remoteBranches == getRemoteBranchesSimplified(selectedBranches)
    IN  /\ deleteCalls' = Append(deleteCalls, selectedBranches)
        /\ remoteTodo' = remoteBranches
        /\ gitLog' = IF Len(remoteBranches) > 0
                     THEN Append(gitLog, Cmd("push -d", << remoteBranches[1] >>))
                     ELSE gitLog
        /\ localStage' = "listing"

\* question 3 answered; if (response?.confirmDelete) deleteBranches(response.featureBranches)
AnswerConfirm ==
    /\ pc = "confirm"
    /\ \E yes \in BOOLEAN :
         /\ response' = [response EXCEPT !.confirmDelete = IF yes THEN "yes" ELSE "no"]
         /\ IF yes
            THEN /\ deleteBranches(response.featureBranches)
                 /\ pc' = "deleting"
            ELSE /\ pc' = "done"
                 /\ UNCHANGED <<deleteCalls, remoteTodo, localStage, gitLog>>
    /\ UNCHANGED <<inputVars, entryVars, environmentBranches, housekeeping, queries, summary,
                   table, followUp, branchesToClean, choices, asked, outcomeVars,
                   errorsLogged>>

\* a prompt is aborted: prompts() returns the answers given so far, without confirmDelete
CancelPrompt ==
    /\ pc \in {"askDelete", "select", "confirm"}
    /\ pc' = "done"
    /\ UNCHANGED <<inputVars, entryVars, environmentBranches, housekeeping, queries, summary,
                   table, followUp, branchesToClean, choices, response, asked, deleteCalls,
                   remoteTodo, localStage, gitLog, outcomeVars, errorsLogged>>

\* deleteRemoteBranches: the awaited push has settled (a rejection is caught by
\* handleGitError, which prints it), and the loop issues the next one
RemotePushSettled ==
    /\ pc = "deleting"
    /\ Len(remoteTodo) > 0
    /\ \E ok \in BOOLEAN :
         /\ pushOutcomes' = Append(pushOutcomes, IF ok THEN "ok" ELSE "rejected")
         /\ errorsLogged' = IF ok THEN errorsLogged
                            ELSE Append(errorsLogged, Cmd("push -d", << remoteTodo[1] >>))
    /\ remoteTodo' = Tail(remoteTodo)
    /\ gitLog' = IF Len(remoteTodo) > 1
                 THEN Append(gitLog, Cmd("push -d", << remoteTodo[2] >>))
                 ELSE gitLog
    /\ UNCHANGED <<inputVars, entryVars, environmentBranches, housekeeping, queries, pc,
                   summary, table, followUp, branchesToClean, choices, response, asked,
                   deleteCalls, localStage, batches, unhandled>>

\* deleteLocalBranches: branchLocal has settled. Answered, deleteMatchingLocalBranches
\* and deleteOrphanLocalBranches are called without await and each issues its batch;
\* rejected, the promise of deleteLocalBranches is rejected and nobody holds it
LocalBranchesListed ==
    /\ pc = "deleting"
    /\ localStage = "listing"
    /\ \E ok \in BOOLEAN :
         IF ok
         THEN LET selectedBranches == deleteCalls[Len(deleteCalls)]
                  localBranches == branchLocal.all
                  matchingLocalBranches ==
                      matchingLocalBranchesOf(selectedBranches, localBranches)
                  orphans == orphanBatchOf(selectedBranches)
              IN  /\ gitLog' = gitLog
                         \o (IF Len(matchingLocalBranches) > 0
                             THEN << Cmd("branch -D", matchingLocalBranches) >> ELSE <<>>)
                         \o (IF Len(orphans) > 0 THEN << Cmd("branch -D", orphans) >> ELSE <<>>)
                  /\ batches' =
                         [matching |-> IF Len(matchingLocalBranches) > 0 THEN "issued" ELSE "none",
                          orphan |-> IF Len(orphans) > 0 THEN "issued" ELSE "none"]
                  /\ localStage' = "done"
                  /\ UNCHANGED unhandled
         ELSE /\ localStage' = "rejected"
              /\ unhandled' = Append(unhandled, "deleteLocalBranches")
              /\ UNCHANGED <<gitLog, batches>>
    /\ UNCHANGED <<inputVars, entryVars, environmentBranches, housekeeping, queries, pc,
                   summary, table, followUp, branchesToClean, choices, response, asked,
                   deleteCalls, remoteTodo, pushOutcomes, errorsLogged>>

\* deleteMatchingLocalBranches: await this.git.deleteLocalBranches(matchingLocalBranches,
\* true) has settled; a rejection rejects the promise of deleteMatchingLocalBranches,
\* which nobody awaits or catches
MatchingBatchSettled ==
    /\ batches.matching = "issued"
    /\ \E ok \in BOOLEAN :
         /\ batches' = [batches EXCEPT !.matching = IF ok THEN "done" ELSE "rejected"]
         /\ unhandled' = IF ok THEN unhandled
                         ELSE Append(unhandled, "deleteMatchingLocalBranches")
    /\ UNCHANGED <<inputVars, entryVars, environmentBranches, housekeeping, queries, pc,
                   summary, table, followUp, branchesToClean, choices, response, asked,
                   deleteCalls, remoteTodo, localStage, gitLog, pushOutcomes, errorsLogged>>

\* deleteOrphanLocalBranches: await this.git.deleteLocalBranches(localBranches, true)
\* .catch(this.handleGitError) has settled
OrphanBatchSettled ==
    /\ batches.orphan = "issued"
    /\ \E ok \in BOOLEAN :
         /\ batches' = [batches EXCEPT !.orphan = IF ok THEN "done" ELSE "rejected"]
         /\ errorsLogged' = IF ok THEN errorsLogged
                            ELSE Append(errorsLogged,
                                        Cmd("branch -D", orphanBatchOf(deleteCalls[Len(deleteCalls)])))
    /\ UNCHANGED <<inputVars, entryVars, environmentBranches, housekeeping, queries, pc,
                   summary, table, followUp, branchesToClean, choices, response, asked,
                   deleteCalls, remoteTodo, localStage, gitLog, pushOutcomes, unhandled>>

\* the state in which executeCheck starts
Init ==
    /\ optCleanup \in CleanupValues
    /\ optBranches \in OptionBranches
    /\ InitRepository(RunRemoteUniverse, RunLocalUniverse, Range(optBranches.names))
    /\ repoCheck = "pending"
    /\ validRepository = "unset"
    /\ lookups = <<>>
    /\ console = <<>>
    /\ environmentBranches = <<>>
    /\ housekeeping = NotRequested
    /\ pc = "start"
    /\ InitIdle

Next ==
    \/ IsValidRepository
    \/ ListRemoteSettled
    \/ CleanSettled
    \/ FetchSettled
    \/ GetBranchSummaryResult
    \/ QueryFailed
    \/ PlotSummaryToConsole
    \/ AnswerAskDelete
    \/ AnswerSelect
    \/ AnswerConfirm
    \/ CancelPrompt
    \/ RemotePushSettled
    \/ LocalBranchesListed
    \/ MatchingBatchSettled
    \/ OrphanBatchSettled

Spec == Init /\ [][Next]_vars

\* classification and report as functions of the query results, for every environment
\* list of at most MaxEnv names (the empty list and repeated names included)
InitClassify == InitWith(EnvLists(MaxEnv), RemoteUniverse, LocalUniverse)

NextClassify == GetBranchSummaryResult \/ PlotSummaryToConsole

SpecClassify == InitClassify /\ [][NextClassify]_vars

(***************************************************************************)
(* Properties of the classification (SpecClassify)                         *)
(***************************************************************************)
\* getBranchSummaryResult has returned
Classified == pc \in {"plot", "askDelete", "select", "confirm", "deleting", "done"}

\* plotSummaryToConsole has returned
Reported == pc \in {"askDelete", "select", "confirm", "deleting", "done"}

Records == 1..Len(summary)

\* a remote name with the "origin/" prefix stripped
stripOriginPrefix(r) == IF startsWith(r, ORIGIN) THEN SubSeq(r, Len(ORIGIN) + 1, Len(r)) ELSE r

\* the local branch has no remote branch of its name
NoRemoteCounterpart(l) == \A r \in remoteSet : stripOriginPrefix(r) # l

\* C1: with a non-empty environment list, no record returned by getBranchSummaryResult
\* has isFullyMerged and isNeverMerged both true.
C1_FullyAndNeverExclusive ==
    (Classified /\ Len(environmentBranches) > 0)
        => \A i \in Records : ~(summary[i].isFullyMerged /\ summary[i].isNeverMerged)

C1_Witness ==
    /\ Classified
    /\ Len(environmentBranches) > 0
    /\ \E i, j \in Records : summary[i].isFullyMerged /\ summary[j].isNeverMerged

\* C2: getBranchSummaryResult returns exactly one record for each remote branch,
\* followed by exactly one record for each local branch that has no same-named remote
\* branch, and no branch name occurs in two records.
C2_ClassifiedExactlyOnce ==
    Classified =>
        LET nRemote == Cardinality(remoteSet)
            orphans == { l \in localSet : NoRemoteCounterpart(l) }
        IN  /\ Len(summary) = nRemote + Cardinality(orphans)
            /\ { summary[i].branch : i \in 1..nRemote } = remoteSet
            /\ { summary[i].branch : i \in (nRemote + 1)..Len(summary) } = orphans
            /\ \A i, j \in Records : i # j => summary[i].branch # summary[j].branch

\* C3: the record of a remote branch b has target[e] = (b is in the merged set of e)
\* for each e of the environment list, isFullyMerged = merged into all of them,
\* isNeverMerged = merged into none, isEnvironmentBranch = (b = "origin/" + e for some e).
C3_RemoteRecordFlags ==
    Classified =>
        \A i \in Records :
            ~summary[i].isLocalOnly =>
                LET b == summary[i].branch
                    E == Range(environmentBranches)
                IN  /\ Range(ObjKeys(summary[i].target)) = E
                    /\ \A e \in E : ObjGet(summary[i].target, e) = (b \in mergedIn[e])
                    /\ summary[i].isFullyMerged = (\A e \in E : b \in mergedIn[e])
                    /\ summary[i].isNeverMerged = (\A e \in E : b \notin mergedIn[e])
                    /\ summary[i].isEnvironmentBranch = (\E e \in E : b = ORIGIN \o e)

\* E = [DEV, master]: a branch merged into both, a branch merged into neither, and
\* origin/DEV and origin/master flagged as environment branches
C3_Witness ==
    /\ Classified
    /\ environmentBranches = << <<"DEV">>, <<"master">> >>
    /\ \E i, j, k, l \in Records :
        /\ summary[i].isFullyMerged /\ ~summary[i].isEnvironmentBranch
        /\ summary[j].isNeverMerged /\ ~summary[j].isLocalOnly
        /\ summary[k].branch = <<"origin/", "DEV">> /\ summary[k].isEnvironmentBranch
        /\ summary[l].branch = <<"origin/", "master">> /\ summary[l].isEnvironmentBranch

\* the number printed on the count line of a follow-up category, 0 when no line is printed
CountPrinted(msg) ==
    IF \E k \in 1..Len(followUp) : followUp[k].msg = msg
    THEN followUp[CHOOSE k \in 1..Len(followUp) : followUp[k].msg = msg].n
    ELSE 0

MatchesEnvironmentBranch(b) == \E e \in Range(environmentBranches) : b = ORIGIN \o e

\* C4: a branch whose name matches a resolved environment branch is flagged
\* isEnvironmentBranch and is counted neither in the "fully merged" nor in the
\* "never merged" follow-up count, whatever the merged sets are.
C4_EnvironmentBranchNotCounted ==
    Reported =>
        /\ \A i \in Records :
              (~summary[i].isLocalOnly /\ MatchesEnvironmentBranch(summary[i].branch))
                  => summary[i].isEnvironmentBranch
        /\ CountPrinted("fullyMerged") =
              Cardinality({ i \in Records : summary[i].isFullyMerged
                                /\ ~MatchesEnvironmentBranch(summary[i].branch) })
        /\ CountPrinted("neverMerged") =
              Cardinality({ i \in Records : summary[i].isNeverMerged
                                /\ ~MatchesEnvironmentBranch(summary[i].branch) })

\* C5: every local branch with no same-named remote counterpart (remote name with the
\* "origin/" prefix stripped) gets one record with isLocalOnly, empty committedAt and
\* committedBy, every environment flag false and the three merge flags false; a local
\* branch that has such a counterpart gets no local-only record.
C5_LocalOnlyRecords ==
    Classified =>
        /\ \A l \in localSet :
              NoRemoteCounterpart(l) =>
                  \E i \in Records :
                      /\ summary[i].branch = l
                      /\ summary[i].isLocalOnly
                      /\ summary[i].committedAt = "" /\ summary[i].committedBy = ""
                      /\ Range(ObjKeys(summary[i].target)) = Range(environmentBranches)
                      /\ \A k \in 1..Len(summary[i].target) : ~summary[i].target[k].value
                      /\ ~summary[i].isFullyMerged /\ ~summary[i].isNeverMerged
                      /\ ~summary[i].isEnvironmentBranch
                      /\ \A j \in Records :
                            (summary[j].isLocalOnly /\ summary[j].branch = l) => j = i
        /\ \A i \in Records :
              summary[i].isLocalOnly =>
                  summary[i].branch \in localSet /\ NoRemoteCounterpart(summary[i].branch)

(***************************************************************************)
(* Properties of the run (Spec)                                            *)
(***************************************************************************)
Printed(msg) == \E k \in 1..Len(followUp) : followUp[k].msg = msg

Shown(question) == question \in Range(asked)

ChoiceValues == { choices[k].value : k \in 1..Len(choices) }

IsPartlyMerged(r) ==
    ~r.isFullyMerged /\ ~r.isNeverMerged /\ ~r.isEnvironmentBranch /\ ~r.isLocalOnly

\* the names a deletion command was issued for
DeletedByCommand(op) ==
    UNION { Range(gitLog[k].names) : k \in { n \in 1..Len(gitLog) : gitLog[n].op = op } }

\* C6: the record flagged isCurrent is never among the choices offered, never passed to
\* deleteBranches, and no push-delete or local delete is issued for the checked-out branch.
C6_CheckedOutNeverDeleted ==
    /\ \A k \in 1..Len(branchesToClean) : ~branchesToClean[k].isCurrent
    /\ choices = choicesOf(branchesToClean)
    /\ \A k \in 1..Len(deleteCalls) : Range(deleteCalls[k]) \subseteq ChoiceValues
    /\ current # <<>> =>
          /\ current \notin DeletedByCommand("push -d")
          /\ current \notin DeletedByCommand("branch -D")

\* C7: without the cleanup flag no prompt is shown and deleteBranches is not invoked,
\* and the re-run hint is printed exactly when a fully merged (non-environment) or a
\* local-only branch exists.
C7_NoCleanupNoPrompt ==
    optCleanup = "undefined" =>
        /\ asked = <<>>
        /\ pc \notin {"askDelete", "select", "confirm", "deleting"}
        /\ deleteCalls = <<>>
        /\ gitLog = <<>>
        /\ Reported =>
              (Printed("rerunHint") <=>
                  \E i \in Records :
                      \/ summary[i].isFullyMerged /\ ~summary[i].isEnvironmentBranch
                      \/ summary[i].isLocalOnly)

C7_Witness == optCleanup = "undefined" /\ pc = "done" /\ Printed("rerunHint")

\* C8: in bare cleanup mode the branches eligible for deletion are exactly the fully
\* merged (non-environment) and the local-only ones, so no never-merged or partly-merged
\* branch is offered or deleted; with "ALL" they are the union of the four categories.
C8_EligibleByMode ==
    Reported =>
        /\ optCleanup = "true" =>
              /\ Range(branchesToClean) =
                    { r \in Range(summary) :
                        /\ ~r.isCurrent
                        /\ (r.isFullyMerged /\ ~r.isEnvironmentBranch) \/ r.isLocalOnly }
              /\ \A r \in Range(summary) :
                    (r.isNeverMerged \/ IsPartlyMerged(r)) =>
                        /\ r \notin Range(branchesToClean)
                        /\ \A n \in DeletedByCommand("push -d") : r.branch # ORIGIN \o n
        /\ optCleanup = "ALL" =>
              Range(branchesToClean) =
                  { r \in Range(summary) :
                      /\ ~r.isCurrent
                      /\ \/ IsPartlyMerged(r)
                         \/ r.isFullyMerged /\ ~r.isEnvironmentBranch
                         \/ r.isNeverMerged
                         \/ r.isLocalOnly }

\* C9 as stated: with cleanup = "ALL", every never-merged branch is among the choices of
\* the multi-select prompt.
C9_NeverMergedOffered ==
    (optCleanup = "ALL" /\ pc = "select") =>
        \A i \in Records : summary[i].isNeverMerged => summary[i].branch \in ChoiceValues

\* C9 as amended: with cleanup = "ALL", every never-merged branch that is not the
\* checked-out one is among the choices of the multi-select prompt.
C9_NeverMergedNotCheckedOutOffered ==
    (optCleanup = "ALL" /\ pc = "select") =>
        \A i \in Records :
            (summary[i].isNeverMerged /\ ~summary[i].isCurrent)
                => /\ summary[i] \in Range(branchesToClean)
                   /\ summary[i].branch \in ChoiceValues

C9_Witness ==
    /\ optCleanup = "ALL"
    /\ pc = "select"
    /\ \E i \in Records : summary[i].isNeverMerged /\ ~summary[i].isCurrent
    /\ \E i \in Records : summary[i].isNeverMerged /\ summary[i].isCurrent

\* C10: the cleanup flow is linear; deleteBranches is invoked at most once, only after a
\* yes, a non-empty selection and a final yes; the multi-select is skipped after a no, the
\* final confirmation after an empty selection; the names passed are the selected names,
\* all of them offered choices.
C10_LinearCleanup ==
    /\ \E n \in 0..3 :
          asked = SubSeq(<<"askDeleteMergedBranches", "featureBranches", "confirmDelete">>, 1, n)
    /\ Len(deleteCalls) <= 1
    /\ Len(deleteCalls) = 1 =>
          /\ response.askDeleteMergedBranches = "yes"
          /\ Len(response.featureBranches) > 0
          /\ response.confirmDelete = "yes"
          /\ deleteCalls[1] = response.featureBranches
          /\ Range(deleteCalls[1]) \subseteq ChoiceValues
    /\ response.askDeleteMergedBranches = "no" => ~Shown("featureBranches")
    /\ Shown("featureBranches") => response.askDeleteMergedBranches = "yes"
    /\ (pc \notin {"select"} /\ Len(response.featureBranches) = 0) => ~Shown("confirmDelete")
    /\ Shown("confirmDelete") => Len(response.featureBranches) > 0
    /\ (pc = "deleting") <=> (Len(deleteCalls) = 1)

C10_Witness ==
    /\ pc = "deleting"
    /\ Len(deleteCalls) = 1
    /\ Len(deleteCalls[1]) > 0
    /\ Len(deleteCalls[1]) < Len(choices)

(***************************************************************************)
(* Properties of the entry: repository check and resolution (Spec)         *)
(***************************************************************************)
\* the positions of the option list looked up so far whose name passes the test
Positions(Test(_)) ==
    SelectSeq([i \in 1..Len(lookups) |-> i], LAMBDA i : Test(i))

NamesAt(positions) == [k \in 1..Len(positions) |-> optBranches.names[positions[k]]]

\* the name is a branch of origin and its lookup was answered
ExistsOnOrigin(i) == optBranches.names[i] \in OriginHeads /\ ~lookups[i].rejected

\* the names the warning "is not a valid remote branch" was printed for, in order
Warned ==
    LET lines == SelectSeq(console, LAMBDA line : line.msg = "notAValidRemoteBranch")
    IN  [k \in 1..Len(lines) |-> lines[k].name]

\* C11: getRemoteEnvironmentBranches returns exactly the input names that exist as
\* branches of origin, in input order; a name that does not exist or whose lookup is
\* rejected is warned about and dropped; no rejection escapes to the caller.
C11_ResolvesExistingNames ==
    (optBranches.isArray /\ pc # "start") =>
        /\ environmentBranches = NamesAt(Positions(ExistsOnOrigin))
        /\ Warned = NamesAt(Positions(LAMBDA i : ~ExistsOnOrigin(i)))
        /\ pc \in {"resolve", "halted"} => unhandled = <<>>

\* C12: isValidRepository returns false, and raises nothing, when the repository check
\* is rejected or answers that the directory is no repository; it returns true only
\* when the check answers true.
C12_ValidRepositoryNeverRaises ==
    repoCheck # "pending" =>
        /\ validRepository = (IF repoCheck = "true" THEN "true" ELSE "false")
        /\ repoCheck \in {"false", "rejected"} =>
              /\ pc = "halted"
              /\ unhandled = <<>>
              /\ console = << Say("notARepository", <<>>) >>
        /\ repoCheck = "rejected" => errorsLogged = << Cmd("checkIsRepo", <<>>) >>

C12_Witness == repoCheck = "rejected" /\ validRepository = "false" /\ pc = "halted"

\* the run has found nothing to report on: no repository, no list of names, or a list
\* of names none of which was found on origin
NothingToReportOn ==
    \/ repoCheck \in {"false", "rejected"}
    \/ repoCheck = "true" /\ ~optBranches.isArray
    \/ /\ optBranches.isArray
       /\ Len(lookups) = Len(optBranches.names)
       /\ \A i \in 1..Len(lookups) : lookups[i].rejected \/ lookups[i].refs = <<>>

\* C13: when the directory is no valid repository, when no list of branches is given,
\* or when none of the names resolves, executeCheck requests no clean and no fetch,
\* issues no classification query, prints no table, asks nothing and deletes nothing.
C13_NothingDoneWithoutBranches ==
    NothingToReportOn =>
        /\ pc = "halted"
        /\ housekeeping = NotRequested
        /\ queries = <<>>
        /\ summary = <<>> /\ table = NoTable /\ followUp = <<>>
        /\ asked = <<>>
        /\ deleteCalls = <<>> /\ gitLog = <<>>
        /\ unhandled = <<>>

\* two names were looked up, one not found and one rejected, and the run has stopped
C13_Witness ==
    /\ pc = "halted"
    /\ Len(lookups) = 2
    /\ lookups[1].refs = <<>> /\ ~lookups[1].rejected
    /\ lookups[2].rejected
    /\ console[Len(console)] = Say("noValidEnvironmentBranches", <<>>)

(***************************************************************************)
(* Properties of the housekeeping and of the queries (Spec)                *)
(***************************************************************************)
HousekeepingCompleted == housekeeping = [clean |-> "done", fetch |-> "done"]

\* C14: in every run that prints the table, the forced clean and the pruning fetch
\* had both been issued and had completed when the remote branches were enumerated
\* and classified.
C14_HousekeepingBeforeReport ==
    [][(pc = "classify" /\ pc' = "plot") => HousekeepingCompleted]_vars

(***************************************************************************)
(* Properties of the deletion (Spec)                                       *)
(***************************************************************************)
\* the commands of one kind issued so far, in order
Issued(op) == SelectSeq(gitLog, LAMBDA cmd : cmd.op = op)

\* the names of the selection that start with "origin/", the prefix stripped, in
\* selection order
SelectedRemoteNames ==
    LET selected == deleteCalls[1]
        remote == SelectSeq(selected, LAMBDA name : startsWith(name, ORIGIN))
    IN  [k \in 1..Len(remote) |-> stripOriginPrefix(remote[k])]

\* the positions of the push-deletes that were rejected
RejectedPushes == { k \in 1..Len(pushOutcomes) : pushOutcomes[k] = "rejected" }

C16_LocalAfterRemote ==
    (pc = "deleting" /\ Issued("branch -D") # <<>>) =>
        /\ remoteTodo = <<>>
        /\ Len(pushOutcomes) = Len(SelectedRemoteNames)

\* a query awaited by getBranchSummaryResult was rejected
QueryRejected == pc = "aborted"

\* C17: a rejected query of getBranchSummaryResult is swallowed: it is logged and stands
\* for an empty or false result, nothing is thrown to the caller, getBranchSummaryResult
\* returns and the report is printed.
C17_QueryFailuresSwallowed ==
    /\ ~QueryRejected
    /\ "executeCheck" \notin Range(unhandled)

\* the rejection of a deletion command was printed by handleGitError
Logged(op, names) == \E k \in 1..Len(errorsLogged) : errorsLogged[k] = Cmd(op, names)

\* C18: every rejection of a deletion command is caught and logged: neither a rejected
\* push-delete nor a rejected batch deletion of matching local branches or of local-only
\* orphans escapes as an unhandled failure, and the other deletion steps still run.
C18_DeletionErrorsCaught ==
    pc = "deleting" =>
        /\ \A k \in RejectedPushes : Logged("push -d", << SelectedRemoteNames[k] >>)
        /\ batches.orphan = "rejected" => Logged("branch -D", orphanBatchOf(deleteCalls[1]))
        /\ batches.matching = "rejected" =>
              Logged("branch -D", matchingLocalBranchesOf(deleteCalls[1], branchLocal.all))
        /\ "deleteMatchingLocalBranches" \notin Range(unhandled)

(***************************************************************************)
(* Properties of the table (SpecClassify)                                  *)
(***************************************************************************)
\* the colours of the cells of row i
RowColours(i) == { table.rows[i][c].color : c \in 1..Len(table.rows[i]) }

\* C19: a row is grey if its record is an environment branch, else green if fully
\* merged, else yellow if never merged, else magenta if local-only, else bold white;
\* every record gets one colour, the same in all cells of its row.
C19_ColourPrecedence ==
    Reported =>
        /\ Len(table.rows) = Len(summary)
        /\ \A i \in Records :
              LET r == summary[i]
                  colour == CHOOSE c \in RowColours(i) : TRUE
              IN  /\ Cardinality(RowColours(i)) = 1
                  /\ (colour = "grey") <=> r.isEnvironmentBranch
                  /\ (colour = "green") <=> (~r.isEnvironmentBranch /\ r.isFullyMerged)
                  /\ (colour = "yellow") <=>
                        (~r.isEnvironmentBranch /\ ~r.isFullyMerged /\ r.isNeverMerged)
                  /\ (colour = "magentaBright") <=>
                        (~r.isEnvironmentBranch /\ ~r.isFullyMerged /\ ~r.isNeverMerged
                            /\ r.isLocalOnly)
                  /\ (colour = "whiteBright.bold") <=>
                        (~r.isEnvironmentBranch /\ ~r.isFullyMerged /\ ~r.isNeverMerged
                            /\ ~r.isLocalOnly)

\* a fully merged environment branch in grey, next to a green, a bold white and a
\* magenta row
C19_Witness ==
    /\ Reported
    /\ \E i \in Records :
          summary[i].isEnvironmentBranch /\ summary[i].isFullyMerged
              /\ RowColours(i) = {"grey"}
    /\ \E i, j, k \in Records :
          /\ RowColours(i) = {"green"}
          /\ RowColours(j) = {"whiteBright.bold"}
          /\ RowColours(k) = {"magentaBright"}

\* C20: for every list of resolved environment branches, repeated names included, the
\* row of a record has one merge cell per environment branch of the heading: 4 + |E|
\* cells, the k-th merge cell marked "X" exactly when the branch is merged into the
\* k-th environment branch of the heading; the name cell starts with "* " exactly for
\* the current branch.
C20_RowMatchesHeading ==
    Reported =>
        /\ Len(table.heading) = 4 + Len(environmentBranches)
        /\ \A k \in 1..Len(environmentBranches) : table.heading[4 + k] = environmentBranches[k]
        /\ \A i \in Records :
              /\ Len(table.rows[i]) = 4 + Len(environmentBranches)
              /\ \A k \in 1..Len(environmentBranches) :
                    (table.rows[i][4 + k].text = <<"X">>) <=>
                        (~summary[i].isLocalOnly
                            /\ summary[i].branch \in mergedIn[environmentBranches[k]])
              /\ table.rows[i][1].text =
                    (IF summary[i].isCurrent THEN <<"* ">> ELSE <<>>) \o summary[i].branch

(***************************************************************************)
(* Properties of the queries and of the commands in flight (Spec)          *)
(***************************************************************************)
\* the number of queries of one kind issued by getBranchSummaryResult
QueryCount(q) == Len(SelectSeq(queries, LAMBDA query : query.q = q))

\* C21: the merged and the unmerged set are asked for once per environment branch per
\* run: with N resolved environment branches a run issues exactly N merged and N
\* unmerged queries.
C21_OnePairPerEnvironmentBranch ==
    Classified =>
        /\ QueryCount("merged") = Len(environmentBranches)
        /\ QueryCount("unmerged") = Len(environmentBranches)

\* the commands requested from git and not yet completed
InFlight ==
    (IF pc \in {"start", "resolve", "classify"} THEN 1 ELSE 0)
        + (IF housekeeping.clean = "requested" THEN 1 ELSE 0)
        + (IF housekeeping.fetch = "requested" THEN 1 ELSE 0)
        + (IF pc = "deleting" /\ remoteTodo # <<>> THEN 1 ELSE 0)
        + (IF pc = "deleting" /\ localStage = "listing" THEN 1 ELSE 0)
        + (IF batches.matching = "issued" THEN 1 ELSE 0)
        + (IF batches.orphan = "issued" THEN 1 ELSE 0)

\* C22: the run is sequential: at every moment, housekeeping and deletion included, at
\* most one command has been requested from git and has not yet completed.
C22_OneCommandAtATime == InFlight <= 1

\* the promise of getBranchSummaryResult, and with it that of executeCheck, was rejected
ClassificationRejected == "executeCheck" \in Range(unhandled)

\* C23: a rejected query of getBranchSummaryResult propagates and aborts the run: no
\* table and no follow-up are printed, no prompt is shown and no branch is deleted.
C23_QueryErrorAborts ==
    ClassificationRejected =>
        /\ pc = "aborted"
        /\ summary = <<>> /\ table = NoTable /\ followUp = <<>>
        /\ asked = <<>> /\ choices = <<>>
        /\ deleteCalls = <<>> /\ gitLog = <<>>

\* the commit of a remote branch could not be shown, after the merged sets were read
C23_Witness ==
    /\ ClassificationRejected
    /\ pc = "aborted"
    /\ queries[Len(queries)].q = "show"
    /\ optCleanup = "ALL"

(* Properties of the checked-out branch in the follow-up (Spec) *)
\* the records eligible for deletion in the reported summary
Eligible == eligibleForDeletionOf(summary, optCleanup)

CheckedOutEligible == \E k \in 1..Len(Eligible) : Eligible[k].isCurrent

OnlyCheckedOutEligible ==
    Len(Eligible) > 0 /\ \A k \in 1..Len(Eligible) : Eligible[k].isCurrent

\* C24: a checked-out branch eligible by its merge status stays in the eligible list and
\* is taken out only where doCleanup is called: without cleanup the re-run hint is
\* printed for it, and with cleanup, when every eligible branch is the checked-out one,
\* the checked-out warning is printed, no prompt is shown and doCleanup is not invoked.
C24_CheckedOutRemovedAtOrchestration ==
    (Reported /\ CheckedOutEligible) =>
        /\ ~isTruthy(optCleanup) => Printed("rerunHint") /\ Printed("hintCheckedOut")
        /\ isTruthy(optCleanup) =>
              /\ Printed("checkedOut")
              /\ branchesToClean = notCurrent(Eligible)
              /\ OnlyCheckedOutEligible =>
                    asked = <<>> /\ choices = <<>> /\ branchesToClean = <<>>
                        /\ deleteCalls = <<>> /\ pc = "done"

\* cleanup is set and the only eligible branch is the checked-out one
C24_Witness ==
    /\ Reported /\ OnlyCheckedOutEligible
    /\ isTruthy(optCleanup)
    /\ Printed("checkedOut")
    /\ asked = <<>>

\* cleanup is absent and the only eligible branch is the checked-out one: the hint is printed
C24_WitnessHint ==
    /\ Reported /\ OnlyCheckedOutEligible
    /\ ~isTruthy(optCleanup)
    /\ Printed("rerunHint")

(* Properties of the partition of the selection (Spec) *)
\* the selection handed to deleteBranches
Selected == deleteCalls[1]

\* the deletion commands of the run have all been issued
AllIssued ==
    /\ pc = "deleting"
    /\ deleteCalls # <<>>
    /\ remoteTodo = <<>>
    /\ localStage = "done"

\* the names of the commands op issued, in order
NamesIssued(op) ==
    LET cmds == Issued(op)
        RECURSIVE Flat(_)
        Flat(k) == IF k > Len(cmds) THEN <<>> ELSE cmds[k].names \o Flat(k + 1)
    IN  Flat(1)

\* the selected name is that of a record that is local only / of a remote branch
SelectedLocalOnly(name) ==
    /\ name \in Range(Selected)
    /\ \E i \in Records : summary[i].branch = name /\ summary[i].isLocalOnly

SelectedRemote(name) ==
    /\ name \in Range(Selected)
    /\ \E i \in Records : summary[i].branch = name /\ ~summary[i].isLocalOnly

\* the push-delete targets, the matching local batch and the orphan batch are the
\* partitions of the selection by the "origin/" prefix
C25_PartitionByPrefix ==
    AllIssued =>
        /\ NamesIssued("push -d") = SelectedRemoteNames
        /\ NamesIssued("branch -D") =
               SelectSeq(SelectedRemoteNames, LAMBDA name : name \in localSet)
                   \o SelectSeq(Selected, LAMBDA name : ~startsWith(name, ORIGIN))
        /\ \A name \in Range(Selected) :
               startsWith(name, ORIGIN) # (name \in Range(orphanBatchOf(Selected)))

\* every name of the orphan batch is that of a selected local-only record
C25_OrphanBatchLocalOnly ==
    AllIssued => \A name \in Range(orphanBatchOf(Selected)) : SelectedLocalOnly(name)

\* every branch a command deletes is that of a selected record: a remote branch of
\* origin, its local branch of the same name, or a local-only branch
C25_OnlySelectedDeleted ==
    AllIssued =>
        /\ \A name \in Range(NamesIssued("push -d")) : SelectedRemote(ORIGIN \o name)
        /\ \A name \in Range(NamesIssued("branch -D")) :
               SelectedLocalOnly(name) \/ SelectedRemote(ORIGIN \o name)

\* C25: no unselected branch is deleted: the push-delete targets are exactly the selected
\* names starting with "origin/", the prefix stripped, the matching local batch exactly
\* those of them that are local branches, the orphan batch exactly the selected names not
\* starting with "origin/"; every selected name is in exactly one partition, and every
\* name of the orphan batch belongs to a record with isLocalOnly = true.
C25_NoUnselectedBranchDeleted ==
    /\ C25_PartitionByPrefix
    /\ C25_OrphanBatchLocalOnly
    /\ C25_OnlySelectedDeleted

(* Properties of the environment branches in the cleanup (Spec) *)
\* C26: in both cleanup modes no record with isEnvironmentBranch = true is among the
\* branches offered for selection, and no delete command is issued for an environment
\* branch.
C26_EnvironmentBranchNeverOffered ==
    /\ \A k \in 1..Len(branchesToClean) : ~branchesToClean[k].isEnvironmentBranch
    /\ \A i \in Records :
          summary[i].isEnvironmentBranch =>
              /\ summary[i].branch \notin ChoiceValues
              /\ \A name \in DeletedByCommand("push -d") : summary[i].branch # ORIGIN \o name

\* in bare cleanup mode no environment record is offered
C26_BareModeNeverOffered ==
    optCleanup = "true" =>
        \A k \in 1..Len(branchesToClean) : ~branchesToClean[k].isEnvironmentBranch

(* Properties of the follow-up categories (SpecClassify) *)
\* the four categories of plotFollowUp, as sets of records
Categories ==
    << Range(fullyMergedBranchesOf(summary)), Range(neverMergedBranchesOf(summary)),
       Range(canBeMergedBranchesOf(summary)), Range(orphanLocalBranchesIn(summary)) >>

\* C27: with a non-empty environment list the four follow-up categories are pairwise
\* disjoint, every record that is not an environment branch is in exactly one of them,
\* and the list of branches eligible for deletion holds no record twice.
C27_CategoriesPartition ==
    (Reported /\ Len(environmentBranches) > 0) =>
        /\ \A j, k \in 1..4 : j # k => Categories[j] \cap Categories[k] = {}
        /\ \A i \in Records :
              ~summary[i].isEnvironmentBranch =>
                  Cardinality({ k \in 1..4 : summary[i] \in Categories[k] }) = 1
        /\ \A j, k \in 1..Len(Eligible) : j # k => Eligible[j] # Eligible[k]
        /\ \A i, j \in Records : i # j => summary[i] # summary[j]

\* all four categories are inhabited and all of them are eligible
C27_Witness ==
    /\ Reported /\ Len(environmentBranches) > 0
    /\ optCleanup = "ALL"
    /\ \A k \in 1..4 : Categories[k] # {}
    /\ Len(Eligible) >= 4

(* Properties of the checked-out flag (SpecClassify) *)
\* the records flagged isCurrent
CurrentRecords == { i \in Records : summary[i].isCurrent }

\* at most one record of a summary is flagged isCurrent
C28_AtMostOneCurrent == Classified => Cardinality(CurrentRecords) <= 1

\* C28: at most one record of a summary has isCurrent = true, and when a local branch
\* is checked out exactly one has: the remote record "origin/<current>" if that remote
\* branch exists, otherwise the local-only record of the current branch.
C28_ExactlyOneCurrent ==
    Classified =>
        /\ Cardinality(CurrentRecords) <= 1
        /\ current # <<>> =>
              \E i \in Records :
                  /\ CurrentRecords = {i}
                  /\ IF ORIGIN \o current \in remoteSet
                     THEN ~summary[i].isLocalOnly /\ summary[i].branch = ORIGIN \o current
                     ELSE summary[i].isLocalOnly /\ summary[i].branch = current

(* Properties of the command entry point (Spec) *)
\* getBranchSummaryResult has been invoked
ClassificationInvoked == pc \in {"classify", "aborted"} \/ Classified

\* C29: through executeCheck, getBranchSummaryResult and plotSummaryToConsole are only
\* invoked with a non-empty list of resolved environment branches, so no record of a run
\* is both fully merged and never merged.
C29_ClassifiedWithEnvironmentBranches ==
    /\ ClassificationInvoked => Len(environmentBranches) > 0
    /\ (table # NoTable \/ followUp # <<>>) => Len(environmentBranches) > 0
    /\ \A i \in Records : ~(summary[i].isFullyMerged /\ summary[i].isNeverMerged)

\* a name was dropped, one was kept, and the summary was reported
C29_Witness ==
    /\ Reported
    /\ Len(environmentBranches) = 1
    /\ Len(optBranches.names) = 2
    /\ Warned # <<>>
    /\ \E i \in Records : summary[i].isFullyMerged
    /\ \E i \in Records : summary[i].isNeverMerged

(***************************************************************************)
(* Termination: every command requested from git eventually returns,       *)
(* answered or rejected, the user eventually answers or cancels every      *)
(* prompt, and the program's own steps are taken: a step that can be taken *)
(* is eventually taken.                                                    *)
(***************************************************************************)
Fairness == WF_vars(Next)

SpecLive == Spec /\ Fairness

\* every deletion step of a confirmed cleanup has been taken and has returned
DeletionCompleted ==
    /\ remoteTodo = <<>>
    /\ localStage \in {"done", "rejected"}
    /\ batches.matching # "issued"
    /\ batches.orphan # "issued"

\* executeCheck is left, no prompt is open and no command is pending
Terminated ==
    /\ \/ pc \in {"halted", "aborted", "done"}
       \/ pc = "deleting" /\ DeletionCompleted
    /\ housekeeping.clean # "requested"
    /\ housekeeping.fetch # "requested"

====
